---- MODULE Spec2Model ----
(***************************************************************************)
(* The reverse-DNS resolver of src/gdns.c: a fixed-capacity circular queue *)
(* of address strings (GDnsQueue), the producer entry point dns_resolver,  *)
(* and the single consumer thread dns_worker, all sharing gdns_thread.mutex *)
(* and the process-wide flag active_gdns.                                   *)
(***************************************************************************)
EXTENDS Integers, Sequences, FiniteSets, TLC

(* ------------------------------ bounds --------------------------------- *)
\* stand-in for QUEUE_SIZE (gdns.h), the capacity handed to gqueue_init
Capacity == 2
\* at most this many dns_resolver calls are admitted in one behaviour
MaxAdmit == 4
\* the same cap under LiveSpec
MaxLive == 3

(* ------------------------------ strings -------------------------------- *)
\* the address strings producers submit
IPv4Addrs == {"10.0.0.1"}
IPv6Addrs == {"::1"}
BadAddrs == {"not-an-ip"}
Addresses == IPv4Addrs \cup IPv6Addrs \cup BadAddrs
\* content of a buffer slot of the xmalloc'd queue that was never written
Uninit == "<uninitialised>"
\* what an unsynchronised read sees of a slot while strcpy overwrites it
Torn == "<torn>"
\* a char* / slot pointer that is NULL
NULLSLOT == -1

VARIABLES
  q,            \* *gdns_queue: [head, tail, size, capacity, buffer]
  active_gdns,  \* the global flag
  mutex,        \* gdns_thread.mutex: "free" or the thread holding it
  notified,     \* a broadcast on not_empty is pending for the waiting worker
  wpc,          \* position of dns_worker
  ip,           \* dns_worker's local ip: index of the slot it points into
  host,         \* dns_worker's local host
  admitted,     \* history: addresses enqueued, in order
  taken,        \* history: head-slot string at each gqueue_dequeue
  looked,       \* history: the string reverse_ip read for the current item
  puts,         \* history: ht_insert_hostname calls, in order, each with
                \* the string the worker dequeued for it (owned)
  last,         \* history: the operation performed by the latest step
  prim,         \* gdns_thread's not_empty, not_full, mutex: "ok", "failed"
                \* or "uninit" (its init call was never reached)
  fatal,        \* FATAL was called: the process has exited
  freed,        \* gdns_queue's storage has been freed
  atStop,       \* history: numbers of takes and puts when active was cleared
  db,           \* the B+tree handed to ins_igsl: key -> list of values
  dbres         \* history: the latest ins_igsl call and its return value

gdnsvars == <<q, active_gdns, mutex, notified, wpc, ip, host,
              admitted, taken, looked, puts, last, prim, fatal, freed, atStop>>
dbvars == <<db, dbres>>
vars == <<gdnsvars, dbvars>>

(* ------------------------------ the queue ------------------------------ *)
Slots == 0 .. Capacity - 1

\* gqueue_init with tail started at 0 instead of -1
gqueue_init_mut(capacity) ==
  [head |-> 0, tail |-> 0, size |-> 0, capacity |-> capacity,
   buffer |-> [i \in 0 .. capacity - 1 |-> Uninit]]

gqueue_init(capacity) ==
  [head |-> 0, tail |-> -1, size |-> 0, capacity |-> capacity,
   buffer |-> [i \in 0 .. capacity - 1 |-> Uninit]]

gqueue_size(qq) == qq.size

gqueue_empty(qq) == qq.size = 0

\* gqueue_full off by one: full only once size exceeds capacity
gqueue_full_mut(qq) == qq.size > qq.capacity

gqueue_full(qq) == qq.size = qq.capacity

\* [q |-> the queue afterwards, ret |-> the return value]
gqueue_enqueue(qq, item) ==
  IF gqueue_full(qq)
  THEN [q |-> qq, ret |-> -1]
  ELSE LET t == (qq.tail + 1) % qq.capacity
       IN [q |-> [qq EXCEPT !.tail = t,
                            !.buffer[t] = item,
                            !.size = qq.size + 1],
           ret |-> 0]

\* gqueue_find with the scan started at slot 1
gqueue_find_mut(qq, item) ==
  IF gqueue_empty(qq)
  THEN FALSE
  ELSE \E i \in 1 .. qq.size - 1 : item = qq.buffer[i]

\* the scan runs over buffer[0 .. size-1], whatever head is
gqueue_find(qq, item) ==
  IF gqueue_empty(qq)
  THEN FALSE
  ELSE \E i \in 0 .. qq.size - 1 : item = qq.buffer[i]

\* gqueue_dequeue handing out the tail slot instead of the head slot
gqueue_dequeue_mut(qq) ==
  IF gqueue_empty(qq)
  THEN [q |-> qq, item |-> NULLSLOT]
  ELSE [q |-> [qq EXCEPT !.head = (qq.head + 1) % qq.capacity,
                         !.size = qq.size - 1],
        item |-> qq.tail]

\* [q |-> the queue afterwards, item |-> the slot pointed to, or NULLSLOT]
gqueue_dequeue(qq) ==
  IF gqueue_empty(qq)
  THEN [q |-> qq, item |-> NULLSLOT]
  ELSE [q |-> [qq EXCEPT !.head = (qq.head + 1) % qq.capacity,
                         !.size = qq.size - 1],
        item |-> qq.head]

\* the live entries: the size slots starting at head, circularly
LiveSlots(qq) == {(qq.head + k) % qq.capacity : k \in 0 .. qq.size - 1}
LiveSeq(qq) == [k \in 1 .. qq.size |-> qq.buffer[(qq.head + k - 1) % qq.capacity]]
LiveAddrs(qq) == {qq.buffer[i] : i \in LiveSlots(qq)}

(* ------------------------- the resolution function --------------------- *)
NullHost == [kind |-> "null", text |-> ""]

\* getnameinfo's return values: 0, or an EAI_ error code
GaiResults == {0, -2}

\* reverse_host: a malloc'd string on success AND on error
reverse_host(str, st) ==
  IF st = 0
  THEN [kind |-> "name", text |-> str]
  ELSE [kind |-> "gai_strerror", text |-> "Name or service not known"]

inet_pton4(str) == str \in IPv4Addrs
inet_pton6(str) == str \in IPv6Addrs

\* the set of values reverse_ip can return for the string it reads
reverse_ip(str) ==
  IF str = ""
  THEN {NullHost}
  ELSE IF str = Torn
  THEN {NullHost} \cup {reverse_host(str, st) : st \in GaiResults}
  ELSE IF inet_pton4(str)
  THEN {reverse_host(str, st) : st \in GaiResults}
  ELSE IF inet_pton6(str)
  THEN {reverse_host(str, st) : st \in GaiResults}
  ELSE {NullHost}

\* what reverse_ip can read through the pointer ip while producers, who do
\* not know the worker still uses the slot, may strcpy into it
RacyRead(qq, slot, owned) ==
  IF qq.buffer[slot] = owned THEN {owned} ELSE {qq.buffer[slot], Torn}

(* ------------------------------ Init ----------------------------------- *)
Primitives == {"not_empty", "not_full", "mutex"}
\* return values of pthread_cond_init, pthread_mutex_init, pthread_create
InitResults == {0, 12}

\* gdns_init that does not test pthread_mutex_init's return value
gdns_init_mut(rc) ==
  LET f1 == rc["not_empty"] # 0
      f2 == ~f1 /\ rc["not_full"] # 0
  IN [prim |-> [p \in Primitives |->
                  IF p = "not_empty" THEN (IF f1 THEN "failed" ELSE "ok")
                  ELSE IF f1 THEN "uninit"
                  ELSE IF p = "not_full" THEN (IF f2 THEN "failed" ELSE "ok")
                  ELSE IF f2 THEN "uninit"
                  ELSE IF rc["mutex"] # 0 THEN "failed" ELSE "ok"],
      fatal |-> f1 \/ f2]

\* lines 259-266: the three init calls in order, FATAL at the first failure
gdns_init(rc) ==
  LET f1 == rc["not_empty"] # 0
      f2 == ~f1 /\ rc["not_full"] # 0
      f3 == ~f1 /\ ~f2 /\ rc["mutex"] # 0
  IN [prim |-> [p \in Primitives |->
                  IF p = "not_empty" THEN (IF f1 THEN "failed" ELSE "ok")
                  ELSE IF f1 THEN "uninit"
                  ELSE IF p = "not_full" THEN (IF f2 THEN "failed" ELSE "ok")
                  ELSE IF f2 THEN "uninit"
                  ELSE IF f3 THEN "failed" ELSE "ok"],
      fatal |-> f1 \/ f2 \/ f3]

\* the keys and values handed to ins_igsl
Keys == {1, 2}
Values == {1, 2, 3}

NoCall == [key |-> 0, value |-> 0, null |-> FALSE, put |-> FALSE, ret |-> 0]

\* the state after gdns_init()
Init ==
  /\ q = gqueue_init(Capacity)
  /\ \E rc \in [Primitives -> InitResults] :
       /\ prim = gdns_init(rc).prim
       /\ fatal = gdns_init(rc).fatal
  /\ freed = FALSE
  /\ atStop = [stopped |-> FALSE, takes |-> 0, puts |-> 0]
  /\ db = [k \in Keys |-> <<>>]
  /\ dbres = NoCall
  /\ active_gdns = FALSE
  /\ mutex = "free"
  /\ notified = FALSE
  /\ wpc = "none"
  /\ ip = NULLSLOT
  /\ host = NullHost
  /\ admitted = <<>>
  /\ taken = <<>>
  /\ looked = ""
  /\ puts = <<>>
  /\ last = [op |-> "gdns_init", addr |-> "", admitted |-> FALSE]

Op(name) == [op |-> name, addr |-> "", admitted |-> FALSE]

(* ------------------------------ producer ------------------------------- *)
\* line 208 without the duplicate scan
CanEnqueue_mut(qq, addr) == ~gqueue_full(qq)

\* line 208: queue is not full and the IP address is not in the queue
CanEnqueue(qq, addr) == ~gqueue_full(qq) /\ ~gqueue_find(qq, addr)

\* line 211 left out: nobody is woken
pthread_cond_broadcast_mut(waiting) == FALSE

\* line 211: a broadcast reaches the worker iff it is blocked in the wait
pthread_cond_broadcast(waiting) == waiting

dns_resolver(addr) ==
  /\ ~fatal
  /\ mutex = "free"
  /\ Len(admitted) < MaxAdmit
  /\ IF CanEnqueue(q, addr)
     THEN /\ q' = gqueue_enqueue(q, addr).q
          /\ notified' = pthread_cond_broadcast(wpc = "waiting")
          /\ admitted' = Append(admitted, addr)
          /\ last' = [op |-> "dns_resolver", addr |-> addr, admitted |-> TRUE]
     ELSE /\ UNCHANGED <<q, notified, admitted>>
          /\ last' = [op |-> "dns_resolver", addr |-> addr, admitted |-> FALSE]
  /\ UNCHANGED <<active_gdns, mutex, wpc, ip, host, taken, looked, puts>>
  /\ UNCHANGED <<prim, fatal, freed, atStop, dbvars>>

(* ------------------------------ lifecycle ------------------------------ *)
\* line 285 with the return code of pthread_create ignored
CreateFailed_mut(rc) == FALSE

\* line 285: if (thread)
CreateFailed(rc) == rc # 0

\* active_gdns is set before pthread_create is tried
gdns_thread_create ==
  /\ ~fatal
  /\ wpc = "none"
  /\ active_gdns' = TRUE
  /\ \E rc \in InitResults :
       /\ wpc' = IF rc = 0 THEN "top" ELSE "none"
       /\ fatal' = CreateFailed(rc)
  /\ last' = Op("gdns_thread_create")
  /\ UNCHANGED <<q, mutex, notified, ip, host, admitted, taken, looked, puts>>
  /\ UNCHANGED <<prim, freed, atStop, dbvars>>

\* stop(): active=false under the mutex, then broadcast not-empty
stop ==
  /\ ~fatal
  /\ mutex = "free"
  /\ active_gdns
  /\ active_gdns' = FALSE
  /\ notified' = (wpc = "waiting")
  /\ atStop' = [stopped |-> TRUE, takes |-> Len(taken), puts |-> Len(puts)]
  /\ last' = Op("stop")
  /\ UNCHANGED <<q, mutex, wpc, ip, host, admitted, taken, looked, puts>>
  /\ UNCHANGED <<prim, fatal, freed, dbvars>>

\* destroy() without its precondition
DestroyAllowed_mut == TRUE

\* destroy() must only run after the worker reaches Stopped
DestroyAllowed == wpc = "stopped"

\* lines 270-274: free (gdns_queue)
gdns_free_queue ==
  /\ ~fatal
  /\ ~freed
  /\ DestroyAllowed
  /\ freed' = TRUE
  /\ last' = Op("gdns_free_queue")
  /\ UNCHANGED <<q, active_gdns, mutex, notified, wpc, ip, host,
                 admitted, taken, looked, puts>>
  /\ UNCHANGED <<prim, fatal, atStop, dbvars>>

(* ------------------------------ the worker ----------------------------- *)
\* lines 229-231: dequeue and unlock
Take ==
  LET d == gqueue_dequeue(q)
  IN /\ q' = d.q
     /\ ip' = d.item
     /\ taken' = Append(taken, IF d.item = NULLSLOT THEN "" ELSE q.buffer[d.item])
     /\ wpc' = "resolving"
     /\ notified' = FALSE
     /\ last' = Op("gqueue_dequeue")

\* lines 226-231 with the mutex held: wait while empty, else dequeue, unlock
WaitOrTake ==
  IF gqueue_empty(q)
  THEN /\ wpc' = "waiting"
       /\ notified' = FALSE
       /\ last' = Op("pthread_cond_wait")
       /\ UNCHANGED <<q, ip, taken>>
  ELSE Take

\* the wait in an if instead of a while: no re-test after waking
AfterWake_mut == Take

\* lines 226-227: the while re-tests gqueue_empty when the wait returns
AfterWake == WaitOrTake

\* line 224: the top of the loop
WorkerLock ==
  /\ ~fatal
  /\ wpc = "top"
  /\ mutex = "free"
  /\ WaitOrTake
  /\ UNCHANGED <<active_gdns, mutex, host, admitted, looked, puts>>
  /\ UNCHANGED <<prim, fatal, freed, atStop, dbvars>>

\* pthread_cond_wait returns after a broadcast
WorkerWake ==
  /\ ~fatal
  /\ wpc = "waiting"
  /\ notified
  /\ mutex = "free"
  /\ AfterWake
  /\ UNCHANGED <<active_gdns, mutex, host, admitted, looked, puts>>
  /\ UNCHANGED <<prim, fatal, freed, atStop, dbvars>>

\* pthread_cond_wait returns spuriously
WorkerSpuriousWake ==
  /\ ~fatal
  /\ wpc = "waiting"
  /\ ~notified
  /\ mutex = "free"
  /\ AfterWake
  /\ UNCHANGED <<active_gdns, mutex, host, admitted, looked, puts>>
  /\ UNCHANGED <<prim, fatal, freed, atStop, dbvars>>

\* line 232: reverse_ip (ip), outside the mutex
WorkerResolve ==
  /\ ~fatal
  /\ wpc = "resolving"
  /\ \E str \in RacyRead(q, ip, taken[Len(taken)]) :
       /\ looked' = str
       /\ host' \in reverse_ip(str)
  /\ wpc' = "resolved"
  /\ last' = Op("reverse_ip")
  /\ UNCHANGED <<q, active_gdns, mutex, notified, ip, admitted, taken, puts>>
  /\ UNCHANGED <<prim, fatal, freed, atStop, dbvars>>

\* line 235 never taken
MustBreak_mut(active) == FALSE

\* line 235: if (!active_gdns)
MustBreak(active) == ~active

\* line 242: if (host != NULL && active_gdns)
MustInsert(h, active) == h # NullHost /\ active

\* lines 233-248: relock, then break with the mutex still held, or publish,
\* signal not_full (nobody waits on it) and unlock
WorkerPublish ==
  /\ ~fatal
  /\ wpc = "resolved"
  /\ mutex = "free"
  /\ IF MustBreak(active_gdns)
     THEN /\ wpc' = "stopped"
          /\ mutex' = "dns_worker"
          /\ last' = Op("break")
          /\ UNCHANGED puts
     ELSE /\ IF MustInsert(host, active_gdns)
             THEN /\ puts' = Append(puts, [ip |-> q.buffer[ip], host |-> host,
                                           owned |-> taken[Len(taken)]])
                  /\ last' = Op("ht_insert_hostname")
             ELSE /\ UNCHANGED puts
                  /\ last' = Op("no_insert")
          /\ wpc' = "top"
          /\ UNCHANGED mutex
  /\ UNCHANGED <<q, active_gdns, notified, ip, host, admitted, taken, looked>>
  /\ UNCHANGED <<prim, fatal, freed, atStop, dbvars>>

dns_worker ==
  \/ WorkerLock
  \/ WorkerWake
  \/ WorkerSpuriousWake
  \/ WorkerResolve
  \/ WorkerPublish

Next ==
  \/ \E addr \in Addresses : dns_resolver(addr)
  \/ gdns_thread_create
  \/ stop
  \/ gdns_free_queue
  \/ dns_worker

Spec == Init /\ [][Next]_vars

\* the worker thread is scheduled and resolver calls return; spurious
\* wake-ups and producers' calls are not guaranteed
FairSpec ==
  /\ Spec
  /\ WF_vars(WorkerLock)
  /\ WF_vars(WorkerWake)
  /\ WF_vars(WorkerResolve)
  /\ WF_vars(WorkerPublish)

\* the same program with fewer admissions, for the liveness check
LiveNext ==
  \/ \E addr \in Addresses : Len(admitted) < MaxLive /\ dns_resolver(addr)
  \/ gdns_thread_create
  \/ stop
  \/ gdns_free_queue
  \/ dns_worker

LiveSpec ==
  /\ Init
  /\ [][LiveNext]_vars
  /\ WF_vars(WorkerLock)
  /\ WF_vars(WorkerWake)
  /\ WF_vars(WorkerResolve)
  /\ WF_vars(WorkerPublish)

(* ------------------------------ tcbtdb.c -------------------------------- *)
\* tcbdbget4: the values stored under key, NULL (here <<>>) if there is none
tcbdbget4(hash, key) == hash[key]

\* tcbdbputdup: add a record for key after the ones it already has
tcbdbputdup(hash, key, value) == [hash EXCEPT ![key] = Append(@, value)]

find_int_key_in_list(data, needle) == IF data = needle THEN 1 ELSE 0

\* is_value_in_tclist with the loop started at the second element
is_value_in_tclist_mut(tclist, value) ==
  IF tclist = <<>>
  THEN 0
  ELSE IF \E i \in 2 .. Len(tclist) : find_int_key_in_list(value, tclist[i]) = 1
       THEN 1
       ELSE 0

is_value_in_tclist(tclist, value) ==
  IF tclist = <<>>
  THEN 0
  ELSE IF \E i \in 1 .. Len(tclist) : find_int_key_in_list(value, tclist[i]) = 1
       THEN 1
       ELSE 0

\* [db |-> the store afterwards, ret |-> the return value]; null: hash is
\* NULL; putok: whether tcbdbputdup succeeds if it is called
ins_igsl(hash, null, key, value, putok) ==
  IF null
  THEN [db |-> hash, ret |-> -1]
  ELSE LET list == tcbdbget4(hash, key)
           in_list == list # <<>> /\ is_value_in_tclist(list, value) = 1
       IN IF ~in_list /\ putok
          THEN [db |-> tcbdbputdup(hash, key, value), ret |-> 0]
          ELSE [db |-> hash, ret |-> -1]

ins_igsl_call ==
  \E null \in BOOLEAN, key \in Keys, value \in Values, putok \in BOOLEAN :
    LET r == ins_igsl(db, null, key, value, putok)
    IN /\ db' = r.db
       /\ dbres' = [key |-> key, value |-> value, null |-> null,
                    put |-> putok, ret |-> r.ret]
       /\ UNCHANGED gdnsvars

DbNext == ins_igsl_call

DbSpec == Init /\ [][DbNext]_vars

TypeOK ==
  /\ q.head \in Slots
  /\ q.tail \in {-1} \cup Slots
  /\ q.size \in 0 .. Capacity
  /\ \A i \in Slots : q.buffer[i] \in Addresses \cup {Uninit}
  /\ active_gdns \in BOOLEAN
  /\ mutex \in {"free", "dns_worker"}
  /\ notified \in BOOLEAN
  /\ wpc \in {"none", "top", "waiting", "resolving", "resolved", "stopped"}
  /\ ip \in {NULLSLOT} \cup Slots
  /\ looked \in Addresses \cup {"", Torn}

(* ------------------------------ claims --------------------------------- *)
IsPrefix(s, t) == Len(s) <= Len(t) /\ \A k \in 1 .. Len(s) : s[k] = t[k]
NoDup(s) == \A i, j \in 1 .. Len(s) : i # j => s[i] # s[j]
\* the step just taken was a dns_resolver call (read in the primed state)
Submitted == last'.op = "dns_resolver"
\* the effect of an admission: copied into the tail slot, tail advanced
\* circularly, size incremented
Enqueued(addr) ==
  /\ q'.tail = (q.tail + 1) % q.capacity
  /\ q'.size = q.size + 1
  /\ q'.head = q.head
  /\ q'.buffer = [q.buffer EXCEPT ![q'.tail] = addr]

\* C1: the live entries of the queue (the size slots from head, circularly)
\* hold pairwise distinct address strings in every reachable state.
C1_NoDuplicateLive == NoDup(LiveSeq(q))

\* C2: the string the worker passes to reverse_ip, and the one it passes to
\* ht_insert_hostname, equal the string that was in the head slot when the
\* worker dequeued the item, whatever producers submit meanwhile.
C2_WorkerOwnsPopped ==
  /\ wpc = "resolved" => looked = taken[Len(taken)]
  /\ \A k \in 1 .. Len(puts) : puts[k].ip = puts[k].owned

\* C3: a failed reverse lookup of a parseable address is never published:
\* every put carries a resolved hostname.
C3_FailureNotPublished ==
  \A k \in 1 .. Len(puts) : puts[k].host.kind = "name"

\* C4: once stop has set active to false while the worker is blocked on
\* not-empty with an empty queue, the worker eventually reaches Stopped,
\* with no further submit needed.
C4_ShutdownObserved ==
  (wpc = "waiting" /\ gqueue_empty(q) /\ ~active_gdns /\ last.op = "stop")
    ~> (wpc = "stopped")

\* C5: if active is false while the worker holds a dequeued address and has
\* not yet re-acquired the mutex, the worker makes no put for it, its next
\* step after resolution is to Stopped, and a Stopped worker never takes or
\* publishes again.
C5_ShutdownDropsInFlight ==
  [][/\ (wpc \in {"resolving", "resolved"} /\ ~active_gdns)
          => /\ puts' = puts
             /\ taken' = taken
             /\ ~active_gdns'
             /\ wpc' \in {wpc, "resolved", "stopped"}
             /\ (wpc = "resolved" /\ wpc' # wpc) => wpc' = "stopped"
     /\ wpc = "stopped"
          => (wpc' = "stopped" /\ puts' = puts /\ taken' = taken /\ q'.head = q.head)
    ]_vars
C5_Witness ==
  /\ wpc = "stopped"
  /\ last.op = "break"
  /\ host.kind = "name"
  /\ Len(puts) < Len(taken)
  /\ ~gqueue_empty(q)

\* C6: 0 <= size <= capacity in every state, and a submit made while the
\* queue is full changes nothing in the queue.
C6_BoundedAdmission ==
  [][/\ q.size \in 0 .. q.capacity
     /\ q'.size \in 0 .. q'.capacity
     /\ (Submitted /\ q.size = q.capacity) => (q' = q /\ admitted' = admitted)
    ]_vars
C6_Witness ==
  /\ last.op = "dns_resolver"
  /\ ~last.admitted
  /\ q.size = q.capacity
  /\ taken = <<>>
  /\ Len(admitted) = q.capacity
  /\ last.addr \notin LiveAddrs(q)

\* C7: the strings returned by successive takes are, at each take, a prefix
\* of the admitted addresses in admission order; the rest of the admitted
\* sequence is exactly the live content from head on.
C7_Fifo ==
  /\ IsPrefix(taken, admitted)
  /\ admitted = taken \o LiveSeq(q)
C7_Witness ==
  /\ Len(admitted) > q.capacity
  /\ Len(taken) >= q.capacity
  /\ q.size > 0
  /\ last.op = "gqueue_dequeue"

\* C8: a submit is admitted if and only if the queue is not full and the
\* address equals no live slot.
C8_AdmitIffRoomAndNotLive ==
  [][Submitted =>
       (Enqueued(last'.addr)
          <=> (q.size # q.capacity /\ last'.addr \notin LiveAddrs(q)))]_vars

\* C9: a submit that finds the queue full, or finds the address by the
\* duplicate scan, leaves head, tail, size and every slot unchanged and
\* sends no not-empty notification.
C9_RejectMutatesNothing ==
  [][(Submitted /\ (gqueue_full(q) \/ gqueue_find(q, last'.addr)))
       => (q' = q /\ notified' = notified /\ admitted' = admitted)]_vars
C9_Witness ==
  /\ last.op = "dns_resolver"
  /\ ~last.admitted
  /\ ~gqueue_full(q)
  /\ gqueue_find(q, last.addr)
  /\ wpc = "waiting"

\* C10: from a freshly initialised queue and with no take so far, the queue
\* holds each admitted address once: a second submit of an address already
\* admitted is rejected and size stays what it was.
C10_DedupBeforeDequeue ==
  taken = <<>> => (LiveSeq(q) = admitted /\ NoDup(admitted) /\ q.size = Len(admitted))
C10_Witness ==
  /\ taken = <<>>
  /\ last.op = "dns_resolver"
  /\ ~last.admitted
  /\ q.size = 1
  /\ q.capacity >= 2
  /\ admitted = <<last.addr>>

\* the string the worker dequeued for the item it is processing
Owned == taken[Len(taken)]

\* C11: while active stays true, a dequeued address whose resolution gave
\* hostname h causes exactly one put(address, h), made after the resolution
\* and before the next take; puts never outnumber takes.
C11_ResolveAndPublish ==
  [][/\ (wpc = "resolved" /\ active_gdns /\ host.kind = "name" /\ wpc' # wpc)
          => puts' = Append(puts, [ip |-> Owned, host |-> host, owned |-> Owned])
     /\ puts' # puts
          => (wpc = "resolved" /\ wpc' = "top" /\ Len(puts') = Len(puts) + 1)
     /\ Len(puts') <= Len(taken')
    ]_vars

\* C12: an address that parses neither as IPv4 nor as IPv6 is admitted by
\* the same rule as any other; once the worker has dequeued it, reverse_ip
\* returns NULL, no put is made and the worker goes back to waiting.
C12_UnparseableUnpublished ==
  [][/\ (Submitted /\ last'.addr \in BadAddrs)
          => (Enqueued(last'.addr) <=> CanEnqueue(q, last'.addr))
     /\ (wpc = "resolved" /\ Owned \in BadAddrs)
          => /\ host = NullHost
             /\ puts' = puts
             /\ (active_gdns /\ wpc' # wpc) => wpc' = "top"
    ]_vars

\* C13: the worker never holds the mutex while it is inside reverse_ip, and
\* in no state is a dns_resolver call kept out of the mutex: every call can
\* lock, run and return.
C13_ProducersNeverBlock ==
  /\ wpc \in {"resolving", "resolved"} => mutex = "free"
  /\ (~fatal /\ Len(admitted) < MaxAdmit)
       => \A addr \in Addresses : ENABLED dns_resolver(addr)

C15_InitFailureAborts ==
  /\ (\E p \in Primitives : prim[p] # "ok") => fatal
  /\ (wpc # "none" \/ last.op = "dns_resolver")
       => \A p \in Primitives : prim[p] = "ok"
  /\ (active_gdns /\ wpc = "none") => fatal
  /\ fatal => (wpc = "none" /\ taken = <<>>)
C15_Witness ==
  /\ fatal
  /\ \A p \in Primitives : prim[p] = "ok"
  /\ last.op = "gdns_thread_create"
  /\ active_gdns
  /\ wpc = "none"
  /\ ~gqueue_empty(q)

\* C16: every take is made with the mutex available to the worker and
\* size > 0, returns the head slot and never NULL, so reverse_ip is never
\* called with a null address, spurious wake-ups included.
C16_TakeNeverNull ==
  [][/\ last'.op = "gqueue_dequeue"
          => (q.size > 0 /\ mutex = "free" /\ ip' = q.head /\ ip' # NULLSLOT)
     /\ wpc' \in {"resolving", "resolved"} => (ip' # NULLSLOT /\ Owned' # "")
    ]_vars
C16_Witness ==
  /\ last.op = "gqueue_dequeue"
  /\ wpc = "resolving"
  /\ ip # NULLSLOT
  /\ Len(taken) >= 2
  /\ gqueue_empty(q)

\* C17: after active was set to false the worker takes at most once more and
\* never puts again; once it is Stopped the queue keeps what it holds and
\* nothing is dequeued, resolved or published.
C17_AtMostOneTakeAfterStop ==
  [][/\ atStop'.stopped
          => (Len(taken') <= atStop'.takes + 1 /\ Len(puts') = atStop'.puts)
     /\ wpc = "stopped"
          => (wpc' = "stopped" /\ q' = q /\ taken' = taken
              /\ looked' = looked /\ puts' = puts)
    ]_vars
C17_Witness ==
  /\ wpc = "stopped"
  /\ atStop.stopped
  /\ Len(taken) = atStop.takes + 1
  /\ ~gqueue_empty(q)

\* C18: with a running worker, every admitted address is eventually dequeued
\* unless active is cleared, and the worker does not stay blocked on
\* not-empty while size > 0.
C18_NoLostWakeup ==
  /\ \A k \in 1 .. MaxLive :
       (wpc # "none" /\ Len(admitted) >= k)
         ~> (Len(taken) >= k \/ ~active_gdns)
  /\ (wpc = "waiting" /\ q.size > 0) ~> (wpc # "waiting")
C18_Witness ==
  /\ wpc = "waiting"
  /\ notified
  /\ q.size > 0
  /\ active_gdns

\* C19: 0 <= head < capacity; tail is -1 until the first enqueue, which
\* stores into slot 0; from then on 0 <= tail < capacity and
\* tail = (head + size - 1) mod capacity.
C19_RingStructure ==
  /\ q.head \in 0 .. q.capacity - 1
  /\ admitted = <<>> => q.tail = -1
  /\ admitted # <<>>
       => /\ q.tail \in 0 .. q.capacity - 1
          /\ q.tail = (q.head + q.size - 1) % q.capacity
  /\ Len(admitted) \in 1 .. q.capacity => q.buffer[0] = admitted[1]
C19_Witness ==
  /\ q.size = 0
  /\ q.head = 0
  /\ Len(taken) > 0
  /\ q.tail = q.capacity - 1

\* the values stored under key k
ValuesOf(hash, k) == {hash[k][i] : i \in 1 .. Len(hash[k])}

\* C20: no key's list ever holds a value twice; an ins_igsl call with a
\* null store, or whose pair is already present, leaves the store unchanged
\* and returns -1; a call whose pair is absent and whose write succeeds
\* appends the value and returns 0; 0 is returned exactly on an insertion.
C20_InsIgslNoDuplicates ==
  [][LET k == dbres'.key
         v == dbres'.value
     IN /\ \A kk \in Keys : NoDup(db'[kk])
        /\ (dbres'.null \/ v \in ValuesOf(db, k))
             => (db' = db /\ dbres'.ret = -1)
        /\ (~dbres'.null /\ v \notin ValuesOf(db, k) /\ dbres'.put)
             => (db' = [db EXCEPT ![k] = Append(@, v)] /\ dbres'.ret = 0)
        /\ dbres'.ret = 0 <=> db' # db
    ]_vars
C20_Witness ==
  /\ dbres.ret = -1
  /\ ~dbres.null
  /\ dbres.put
  /\ dbres.value \in ValuesOf(db, dbres.key)
  /\ Len(db[dbres.key]) >= 2
====
